---- MODULE Spec2Model ----
(***************************************************************************)
(* Shrake-Rupley accessible-surface rasteriser of bpmfwfft/sasa.cpp.       *)
(*                                                                         *)
(* asa_frame is modelled statement by statement as a per-execution-unit    *)
(* state machine (one action per loop head / loop body of the source), and *)
(* sasa as the OpenMP region that hands frames to execution units.         *)
(*                                                                         *)
(* Arithmetic.  The source computes in IEEE single precision.  The model   *)
(* computes the same expressions exactly, over an integer lattice:         *)
(* coordinates, radii and the grid spacing are integers, the sphere points *)
(* are axis unit vectors, and a voxel contribution constant*r*r is counted *)
(* in units of constant = 4*pi/n_sphere_points.  Every comparison of the   *)
(* source (r2 < cutoff2, r2 < 1e-10f, dot3 < r*r, the grid bounds) is the  *)
(* same comparison here.                                                   *)
(***************************************************************************)
EXTENDS Integers, Sequences, FiniteSets, TLC

\* ------------------------------------------------------------------ bounds
MaxAtoms == 3
MaxPoints == 2
MaxCoord == 2
MaxFrames == 2

\* the voxel counts (counts[0], counts[1], counts[2]) of the runs modelled
GridCounts == {<<3, 3, 2>>}

\* 1e-10f of line 86 in lattice units: two lattice points are closer than
\* it exactly when they coincide (r2 = 0 < 1)
NearZeroR2 == 1

\* INT_MIN, one of the values an out-of-range float-to-int conversion of
\* lines 130-132 produces (cvttss2si); the other one modelled is 0
IntMin == -2147483647 - 1

Radii == {1, 2}
Spacings == {-1, 0, 1, 2}

VARIABLES
    \* arguments of sasa
    n_frames, n_atoms, xyzlist, atom_radii, n_sphere_points,
    atom_selection_mask, counts, grid_spacing, out,
    \* locals of sasa, the OpenMP region
    sphere_points, wb1, wb2, n_threads, todo, done, exited,
    \* what (int)NaN yields in this build
    nan_to_int,
    \* per execution unit: position in asa_frame and its locals
    pc, frame, i, j, k, n_neighbor_indices, k_closest_neighbor, is_accessible,
    \* history: the memory accesses of a unit's last step, and what became of
    \* each sphere point of the current atom (exposed?, voxel or -1, value)
    acc, cls

inputs == <<n_frames, n_atoms, xyzlist, atom_radii, n_sphere_points,
            atom_selection_mask, counts, grid_spacing, sphere_points,
            n_threads, nan_to_int>>
locals == <<pc, frame, i, j, k, n_neighbor_indices, k_closest_neighbor,
            is_accessible>>
vars == <<inputs, out, wb1, wb2, todo, done, exited, locals, acc, cls>>

Units == 1..n_threads

\* ------------------------------------------------------------ arithmetic
Abs(x) == IF x < 0 THEN -x ELSE x

\* dot3 of vectorize.h on the first three lanes
dot3(a, b) == a[1]*b[1] + a[2]*b[2] + a[3]*b[3]

Minus(a, b) == <<a[1]-b[1], a[2]-b[2], a[3]-b[3]>>

\* roundf(c / g), g # 0: nearest integer, halves away from zero
roundf_div(c, g) ==
    LET q == (2*Abs(c) + Abs(g)) \div (2*Abs(g))
    IN IF (c < 0) # (g < 0) THEN -q ELSE q

\* (int)(x / g), g # 0: truncation toward zero
int_div(x, g) ==
    LET q == Abs(x) \div Abs(g)
    IN IF (x < 0) # (g < 0) THEN -q ELSE q

\* lines 125-132 for one coordinate c.  With grid_spacing = 0 the quotient
\* is +-inf or NaN, times 0 is NaN, and (int)NaN is undefined: the build's
\* conversion result.
GridCoord(c) ==
    IF grid_spacing = 0 THEN nan_to_int
    ELSE LET x == roundf_div(c, grid_spacing) * grid_spacing
         IN int_div(x, grid_spacing)

\* ------------------------------------------------------------ sasa helpers
\* the points generate_sphere_points hands to asa_frame, on the lattice:
\* n unit vectors, the first one (1,0,0) as the golden spiral's for n = 1
UnitVectors == << <<1,0,0>>, <<0,1,0>>, <<0,0,1>>, <<-1,0,0>>, <<0,-1,0>>, <<0,0,-1>> >>
generate_sphere_points(n) ==
    [x \in 0..(3*n - 1) |-> UnitVectors[(x \div 3) + 1][(x % 3) + 1]]

total_grid_points == counts[0] * counts[1] * counts[2]

\* out + i*total_grid_points (line 217)
SliceWrong(f) == 0
Slice(f) == f * total_grid_points

\* private(wb1, wb2) (line 203): the scratch buffers unit t works in
WorkBufShared(t) == 1
WorkBuf(t) == t

\* xyzlist + i*n_atoms*3 (line 215), read as frame[idx]
FrameAt(f, idx) == xyzlist[f*n_atoms*3 + idx]
AtomPos(f, a) == <<FrameAt(f, a*3), FrameAt(f, a*3+1), FrameAt(f, a*3+2)>>

\* ------------------------------------------------------ asa_frame helpers
\* line 62: the atom is skipped
NotInSelectionWrong(a) == FALSE
NotInSelection(a) == atom_selection_mask[a] = 0

r2_of(f, a, b) == dot3(Minus(AtomPos(f, a), AtomPos(f, b)),
                       Minus(AtomPos(f, a), AtomPos(f, b)))
radius_cutoff2(a, b) ==
    (atom_radii[a] + atom_radii[b]) * (atom_radii[a] + atom_radii[b])

\* line 82
IsNearbyWrong(f, a, b) == r2_of(f, a, b) <= radius_cutoff2(a, b)
IsNearby(f, a, b) == r2_of(f, a, b) < radius_cutoff2(a, b)

\* line 86
IsOnTopWrong(f, a, b) == FALSE
IsOnTop(f, a, b) == r2_of(f, a, b) < NearZeroR2

\* line 105: r_j read back from centered_sphere_points
CenteredPoint(t, p) ==
    <<wb2[WorkBuf(t)][3*p], wb2[WorkBuf(t)][3*p+1], wb2[WorkBuf(t)][3*p+2]>>

\* line 110: the scan of point j ends before this k
ScanEndNoWrap(n, kc) == n
ScanEnd(n, kc) == n + kc

\* line 111
k_prime_of(kk, n) == kk % n

\* lines 112-116: neighbor `index` hides the point r_j
Hides(f, rj, index) ==
    LET r == atom_radii[index]
        r_jk == Minus(rj, AtomPos(f, index))
    IN dot3(r_jk, r_jk) < r*r

\* line 117
NewClosestWrong(kk) == kk + 1
NewClosest(kk) == kk

\* line 135
InBounds(ix, iy, iz) ==
    /\ ix >= 0 /\ ix < counts[0]
    /\ iy >= 0 /\ iy < counts[1]
    /\ iz >= 0 /\ iz < counts[2]

\* line 137
GridIndexWrong(ix, iy, iz) == iz * counts[1] * counts[0] + ix * counts[1] + iy
GridIndex(ix, iy, iz) == iz * counts[1] * counts[0] + iy * counts[0] + ix

\* line 140, in units of constant
ValueWrong(r) == r
Value(r) == r * r

\* ------------------------------------------------------------------- Init
AllMasks == UNION {[0..(n-1) -> {0, 1}] : n \in 1..MaxAtoms}

InitWith(Threads, Frames, AtomCounts, PointCounts, Coords, Rads, Masks, Space, Junk) ==
    /\ n_threads \in Threads
    /\ n_frames \in Frames
    /\ n_atoms \in AtomCounts
    /\ n_sphere_points \in PointCounts
    /\ grid_spacing \in Space
    /\ nan_to_int \in (IF grid_spacing = 0 THEN {IntMin, 0} ELSE {0})
    /\ \E g \in GridCounts : counts = [c \in 0..2 |-> g[c+1]]
    /\ \E xs \in [0..(n_frames*n_atoms - 1) -> Coords] :
          xyzlist = [x \in 0..(n_frames*n_atoms*3 - 1) |->
                        IF x % 3 = 0 THEN xs[x \div 3] ELSE 0]
    /\ atom_radii \in [0..(n_atoms-1) -> Rads]
    /\ atom_selection_mask \in [0..(n_atoms-1) -> {0, 1}] \cap Masks
    /\ sphere_points = generate_sphere_points(n_sphere_points)
    \* caller's buffer and freshly malloc'ed scratch: arbitrary content
    /\ \E junk \in Junk :
          /\ out = [x \in 0..(n_frames * total_grid_points - 1) |-> IF junk THEN x + 1 ELSE 0]
          /\ wb1 = [t \in Units |-> [x \in 0..(n_atoms-1) |->
                                        IF junk THEN n_atoms + x ELSE 0]]
          /\ wb2 = [t \in Units |-> [x \in 0..(3*n_sphere_points-1) |->
                                        IF junk THEN -7 ELSE 0]]
    /\ todo = 0..(n_frames-1)
    /\ done = {}
    /\ exited = FALSE
    /\ pc = [t \in Units |-> "idle"]
    /\ frame = [t \in Units |-> 0]
    /\ i = [t \in Units |-> 0]
    /\ j = [t \in Units |-> 0]
    /\ k = [t \in Units |-> 0]
    /\ n_neighbor_indices = [t \in Units |-> 0]
    /\ k_closest_neighbor = [t \in Units |-> 0]
    /\ is_accessible = [t \in Units |-> TRUE]
    /\ acc = [t \in Units |-> {}]
    /\ cls = [t \in Units |-> <<>>]

\* one call of asa_frame on one frame
InitFrame ==
    InitWith({1}, {1}, 1..MaxAtoms, {MaxPoints}, 0..MaxCoord, Radii, AllMasks,
             {1}, {TRUE})

\* one call of asa_frame on a frame of two atoms, on grids of spacing 1 and 2
InitGrid ==
    InitWith({1}, {1}, {2}, {MaxPoints}, 0..MaxCoord, Radii, AllMasks,
             {1, 2}, {TRUE})

\* sasa: several frames handed to several execution units
Init ==
    InitWith(1..2, 1..MaxFrames, {2}, {2}, 0..1, Radii,
             {[a \in 0..1 |-> IF a = 0 THEN 1 ELSE 0]}, {1}, {TRUE})

\* sasa called with any configuration, valid or not
InitConfig ==
    InitWith({1}, {1}, {2}, 0..1, 0..1, {1}, AllMasks, Spacings, BOOLEAN)

\* ---------------------------------------------------------------- actions
\* sasa lines 214-217 and asa_frame lines 50-59: unit t is handed frame f
\* by the omp for (any unit may get any frame), zeroes the frame's slice of
\* out and starts the loop over the atoms
AsaFrameEnter(t) ==
    /\ ~exited /\ pc[t] = "idle" /\ todo # {}
    /\ \E f \in todo :
          LET cells == {Slice(f) + x : x \in 0..(total_grid_points - 1)}
          IN /\ todo' = todo \ {f}
             /\ frame' = [frame EXCEPT ![t] = f]
             /\ out' = [x \in DOMAIN out |-> IF x \in cells THEN 0 ELSE out[x]]
             /\ acc' = [acc EXCEPT ![t] = {<<"out", x>> : x \in cells}]
    /\ i' = [i EXCEPT ![t] = 0]
    /\ pc' = [pc EXCEPT ![t] = "atom"]
    /\ UNCHANGED <<inputs, wb1, wb2, done, exited, j, k, n_neighbor_indices,
                   k_closest_neighbor, is_accessible, cls>>

\* lines 59-69 and the return at line 148: head of the loop over atoms
AtomLoop(t) ==
    /\ ~exited /\ pc[t] = "atom"
    /\ acc' = [acc EXCEPT ![t] = {}]
    /\ IF i[t] >= n_atoms
         THEN /\ pc' = [pc EXCEPT ![t] = "idle"]
              /\ done' = done \cup {frame[t]}
              /\ UNCHANGED <<i, j, n_neighbor_indices, cls>>
         ELSE IF NotInSelection(i[t])
         THEN /\ i' = [i EXCEPT ![t] = i[t] + 1]
              /\ UNCHANGED <<pc, done, j, n_neighbor_indices, cls>>
         ELSE /\ n_neighbor_indices' = [n_neighbor_indices EXCEPT ![t] = 0]
              /\ j' = [j EXCEPT ![t] = 0]
              /\ cls' = [cls EXCEPT ![t] = <<>>]
              /\ pc' = [pc EXCEPT ![t] = "neighbors"]
              /\ UNCHANGED <<i, done>>
    /\ UNCHANGED <<inputs, out, wb1, wb2, todo, exited, frame, k,
                   k_closest_neighbor, is_accessible>>

\* lines 70-92: one iteration of the neighbor scan; exit(1) ends the process
NeighborLoop(t) ==
    /\ ~exited /\ pc[t] = "neighbors" /\ j[t] < n_atoms
    /\ IF i[t] = j[t]
         THEN /\ j' = [j EXCEPT ![t] = j[t] + 1]
              /\ acc' = [acc EXCEPT ![t] = {}]
              /\ UNCHANGED <<wb1, n_neighbor_indices, exited>>
         ELSE /\ IF IsNearby(frame[t], i[t], j[t])
                   THEN /\ wb1' = [wb1 EXCEPT ![WorkBuf(t)][n_neighbor_indices[t]] = j[t]]
                        /\ n_neighbor_indices' =
                              [n_neighbor_indices EXCEPT ![t] = n_neighbor_indices[t] + 1]
                        /\ acc' = [acc EXCEPT ![t] = {<<"wb1 write", n_neighbor_indices[t]>>}]
                   ELSE /\ acc' = [acc EXCEPT ![t] = {}]
                        /\ UNCHANGED <<wb1, n_neighbor_indices>>
              /\ IF IsOnTop(frame[t], i[t], j[t])
                   THEN exited' = TRUE /\ UNCHANGED j
                   ELSE j' = [j EXCEPT ![t] = j[t] + 1] /\ UNCHANGED exited
    /\ UNCHANGED <<inputs, out, wb2, todo, done, pc, frame, i, k,
                   k_closest_neighbor, is_accessible, cls>>

\* lines 94-102: the neighbor scan is over; center the sphere points on atom i
CenterSpherePoints(t) ==
    /\ ~exited /\ pc[t] = "neighbors" /\ j[t] >= n_atoms
    /\ wb2' = [wb2 EXCEPT ![WorkBuf(t)] =
                  [x \in 0..(3*n_sphere_points - 1) |->
                      FrameAt(frame[t], 3*i[t] + (x % 3))
                        + atom_radii[i[t]] * sphere_points[x]]]
    /\ k_closest_neighbor' = [k_closest_neighbor EXCEPT ![t] = 0]
    /\ j' = [j EXCEPT ![t] = 0]
    /\ pc' = [pc EXCEPT ![t] = "points"]
    /\ acc' = [acc EXCEPT ![t] = {}]
    /\ UNCHANGED <<inputs, out, wb1, todo, done, exited, frame, i, k,
                   n_neighbor_indices, is_accessible, cls>>

\* lines 103-110: head of the loop over the sphere points
PointLoop(t) ==
    /\ ~exited /\ pc[t] = "points"
    /\ acc' = [acc EXCEPT ![t] = {}]
    /\ IF j[t] >= n_sphere_points
         THEN /\ i' = [i EXCEPT ![t] = i[t] + 1]
              /\ pc' = [pc EXCEPT ![t] = "atom"]
              /\ UNCHANGED <<is_accessible, k>>
         ELSE /\ is_accessible' = [is_accessible EXCEPT ![t] = TRUE]
              /\ k' = [k EXCEPT ![t] = k_closest_neighbor[t]]
              /\ pc' = [pc EXCEPT ![t] = "scan"]
              /\ UNCHANGED i
    /\ UNCHANGED <<inputs, out, wb1, wb2, todo, done, exited, frame, j,
                   n_neighbor_indices, k_closest_neighbor, cls>>

\* lines 110-121: one iteration of the cyclic scan of the neighbor list
ScanLoop(t) ==
    /\ ~exited /\ pc[t] = "scan"
    /\ k[t] < ScanEnd(n_neighbor_indices[t], k_closest_neighbor[t])
    /\ LET k_prime == k_prime_of(k[t], n_neighbor_indices[t])
           index == wb1[WorkBuf(t)][k_prime]
       IN /\ acc' = [acc EXCEPT ![t] = {<<"wb1 read", k_prime>>}]
          /\ IF Hides(frame[t], CenteredPoint(t, j[t]), index)
               THEN /\ k_closest_neighbor' =
                          [k_closest_neighbor EXCEPT ![t] = NewClosest(k[t])]
                    /\ is_accessible' = [is_accessible EXCEPT ![t] = FALSE]
                    /\ pc' = [pc EXCEPT ![t] = "rasterize"]
                    /\ UNCHANGED k
               ELSE /\ k' = [k EXCEPT ![t] = k[t] + 1]
                    /\ UNCHANGED <<k_closest_neighbor, is_accessible, pc>>
    /\ UNCHANGED <<inputs, out, wb1, wb2, todo, done, exited, frame, i, j,
                   n_neighbor_indices, cls>>

\* the scan of point j is over: by break, or with the list exhausted
ScanOver(t) ==
    \/ pc[t] = "rasterize"
    \/ /\ pc[t] = "scan"
       /\ k[t] >= ScanEnd(n_neighbor_indices[t], k_closest_neighbor[t])

\* lines 123-145 and j++ of line 103
Rasterize(t) ==
    /\ ~exited /\ ScanOver(t)
    /\ LET r_j == CenteredPoint(t, j[t])
           ix == GridCoord(r_j[1])
           iy == GridCoord(r_j[2])
           iz == GridCoord(r_j[3])
           grid_index == GridIndex(ix, iy, iz)
           value == Value(atom_radii[i[t]])
           at == Slice(frame[t]) + grid_index
       IN IF is_accessible[t] /\ InBounds(ix, iy, iz)
          THEN /\ out' = [x \in DOMAIN out |->
                             IF x = at THEN out[x] + value ELSE out[x]]
               /\ acc' = [acc EXCEPT ![t] = {<<"out", at>>}]
               /\ cls' = [cls EXCEPT ![t] = Append(cls[t], <<TRUE, grid_index, value>>)]
          ELSE /\ acc' = [acc EXCEPT ![t] = {}]
               /\ cls' = [cls EXCEPT ![t] = Append(cls[t], <<is_accessible[t], -1, 0>>)]
               /\ UNCHANGED out
    /\ j' = [j EXCEPT ![t] = j[t] + 1]
    /\ pc' = [pc EXCEPT ![t] = "points"]
    /\ UNCHANGED <<inputs, wb1, wb2, todo, done, exited, frame, i, k,
                   n_neighbor_indices, k_closest_neighbor, is_accessible>>

\* lines 220-221: no frame is left for unit t
FreeWorkBuffers(t) ==
    /\ ~exited /\ pc[t] = "idle" /\ todo = {}
    /\ pc' = [pc EXCEPT ![t] = "freed"]
    /\ acc' = [acc EXCEPT ![t] = {}]
    /\ UNCHANGED <<inputs, out, wb1, wb2, todo, done, exited, frame, i, j, k,
                   n_neighbor_indices, k_closest_neighbor, is_accessible,
                   cls>>

Next ==
    \/ \E t \in Units : AsaFrameEnter(t)
    \/ \E t \in Units : AtomLoop(t)
    \/ \E t \in Units : NeighborLoop(t)
    \/ \E t \in Units : CenterSpherePoints(t)
    \/ \E t \in Units : PointLoop(t)
    \/ \E t \in Units : ScanLoop(t)
    \/ \E t \in Units : Rasterize(t)
    \/ \E t \in Units : FreeWorkBuffers(t)

Spec == Init /\ [][Next]_vars
SpecFrame == InitFrame /\ [][Next]_vars
SpecGrid == InitGrid /\ [][Next]_vars
SpecConfig == InitConfig /\ [][Next]_vars

\* ------------------------------------------------------- reference notions
\* What the claims speak of, stated from the geometry alone: these use no
\* scratch buffer, no scan order and none of the decisions of asa_frame.
Atoms == 0..(n_atoms - 1)
Points == 0..(n_sphere_points - 1)

Coincident(f, a, b) == r2_of(f, a, b) < NearZeroR2

WithinCutoff(f, a) ==
    {b \in Atoms : b # a /\ r2_of(f, a, b) < radius_cutoff2(a, b)}

\* sphere point p scaled by radius_a and translated to the centre of atom a
SurfacePoint(f, a, p) ==
    LET c == AtomPos(f, a)
        u == UnitVectors[p + 1]
    IN <<c[1] + atom_radii[a]*u[1], c[2] + atom_radii[a]*u[2],
         c[3] + atom_radii[a]*u[3]>>

Inside(pt, f, b) ==
    dot3(Minus(pt, AtomPos(f, b)), Minus(pt, AtomPos(f, b)))
        < atom_radii[b] * atom_radii[b]

Exposed(f, a, p) ==
    \A b \in Atoms \ {a} : ~Inside(SurfacePoint(f, a, p), f, b)

\* the rounded voxel index of a point: each coordinate to the nearest
\* multiple of the spacing, as a count of spacings
Voxel(pt) ==
    <<roundf_div(pt[1], grid_spacing), roundf_div(pt[2], grid_spacing),
      roundf_div(pt[3], grid_spacing)>>

InGrid(v) ==
    /\ v[1] \in 0..(counts[0] - 1)
    /\ v[2] \in 0..(counts[1] - 1)
    /\ v[3] \in 0..(counts[2] - 1)

Voxels == {v \in (0..(counts[0]-1)) \X (0..(counts[1]-1)) \X (0..(counts[2]-1)) : TRUE}

\* the exposed sphere points of the selected atoms of frame f: <<atom, point>>
ExposedPoints(f) ==
    {ap \in Atoms \X Points :
        atom_selection_mask[ap[1]] # 0 /\ Exposed(f, ap[1], ap[2])}

RECURSIVE Mass(_)
Mass(S) ==
    IF S = {} THEN 0
    ELSE LET ap == CHOOSE x \in S : TRUE
         IN atom_radii[ap[1]] * atom_radii[ap[1]] + Mass(S \ {ap})

\* the exposed points of frame f whose rounded voxel index is v
PointsAt(f, v) ==
    {ap \in ExposedPoints(f) : Voxel(SurfacePoint(f, ap[1], ap[2])) = v}

RECURSIVE SumCells(_, _)
SumCells(f, x) ==
    IF x >= total_grid_points THEN 0
    ELSE out[f * total_grid_points + x] + SumCells(f, x + 1)

RECURSIVE SumValues(_)
SumValues(q) == IF q = <<>> THEN 0 ELSE Head(q)[3] + SumValues(Tail(q))

\* a plain linear scan of the whole neighbor list of unit t from offset m
RECURSIVE PlainScan(_, _)
PlainScan(t, m) ==
    IF m >= n_neighbor_indices[t] THEN TRUE
    ELSE IF Hides(frame[t], CenteredPoint(t, j[t]), wb1[WorkBuf(t)][m]) THEN FALSE
    ELSE PlainScan(t, m + 1)

\* unit t is inside the per-atom body of asa_frame (lines 65-146)
InAtom(t) == pc[t] \in {"neighbors", "points", "scan", "rasterize"}
\* unit t is inside the loop over the sphere points (lines 102-146)
InPoints(t) == pc[t] \in {"points", "scan", "rasterize"}

\* ------------------------------------------------------------------ claims

\* C1: whenever the scan of a sphere point is over, the cyclic scan that
\* started at the remembered offset k_closest_neighbor has classified the
\* point as exposed exactly when a plain linear scan of the whole neighbor
\* list from offset 0 does, for every neighbor list (empty and
\* single-element ones included) and every offset carried over.
C1_CyclicScanEqualsPlainScan ==
    \A t \in Units : ScanOver(t) => (is_accessible[t] <=> PlainScan(t, 0))

\* C1 witness: a point found occluded only after the scan, started at a
\* non-zero offset, wrapped round a list of at least two neighbors
C1_Witness ==
    \E t \in Units :
        /\ pc[t] = "rasterize" /\ ~is_accessible[t]
        /\ n_neighbor_indices[t] >= 2
        /\ k[t] >= n_neighbor_indices[t]
        /\ k_prime_of(k[t], n_neighbor_indices[t]) = 0

\* C8: when the neighbor scan of a selected atom i ends, the first
\* n_neighbor_indices entries of the neighbor scratch buffer are exactly
\* the atoms j # i within the radius-sum cutoff, each once, in strictly
\* ascending order; the count starts at 0 for each atom and never exceeds
\* n_atoms - 1.
C8_NeighborList ==
    \A t \in Units :
        /\ pc[t] = "neighbors" =>
              /\ n_neighbor_indices[t] <= n_atoms - 1
              /\ ~exited => n_neighbor_indices[t] <= j[t]
        /\ (pc[t] = "neighbors" /\ j[t] >= n_atoms /\ ~exited) =>
              LET n == n_neighbor_indices[t]
                  list == [x \in 0..(n-1) |-> wb1[WorkBuf(t)][x]]
              IN /\ {list[x] : x \in 0..(n-1)} = WithinCutoff(frame[t], i[t])
                 /\ \A x, y \in 0..(n-1) : x < y => list[x] < list[y]

\* C8 witness: a finished neighbor scan that kept one atom and left one out
C8_Witness ==
    \E t \in Units :
        /\ pc[t] = "neighbors" /\ j[t] >= n_atoms /\ ~exited
        /\ i[t] = 1 /\ n_atoms = 3
        /\ n_neighbor_indices[t] = 1 /\ wb1[WorkBuf(t)][0] = 2

\* C9 as stated: the rotating offset is 0 when the first sphere point of an
\* atom is tested, after an occluded point it is the position of the
\* blocking neighbor, and it is an index in [0, n_neighbor_indices) whenever
\* the neighbor list is non-empty.
C9_OffsetIsAnIndex ==
    \A t \in Units :
        /\ (InPoints(t) /\ j[t] = 0 /\ pc[t] # "rasterize") => k_closest_neighbor[t] = 0
        /\ (InPoints(t) /\ n_neighbor_indices[t] > 0) =>
              k_closest_neighbor[t] \in 0..(n_neighbor_indices[t] - 1)

\* C9 amended: the offset is 0 when the first sphere point of an atom is
\* tested; after an occluded point it is the scan counter k at which the
\* blocking neighbor was found, so that its remainder modulo
\* n_neighbor_indices is the position of that neighbor in the list; the
\* offset itself never exceeds (points tested) * (n_neighbor_indices - 1).
C9_OffsetModuloIsBlocker ==
    \A t \in Units :
        /\ (InPoints(t) /\ j[t] = 0 /\ pc[t] # "rasterize") => k_closest_neighbor[t] = 0
        /\ pc[t] = "rasterize" =>
              /\ n_neighbor_indices[t] > 0
              /\ k_closest_neighbor[t] = k[t]
              /\ Inside(SurfacePoint(frame[t], i[t], j[t]), frame[t],
                        wb1[WorkBuf(t)][k_closest_neighbor[t] % n_neighbor_indices[t]])
        /\ (InPoints(t) /\ n_neighbor_indices[t] > 0) =>
              /\ k_closest_neighbor[t] >= 0
              /\ k_closest_neighbor[t] <=
                    (j[t] + 1) * (n_neighbor_indices[t] - 1)

\* C9 witness: after an occluded point the offset is past the end of the list
C9_Witness ==
    \E t \in Units :
        /\ pc[t] = "rasterize"
        /\ k_closest_neighbor[t] >= n_neighbor_indices[t]

\* C2 as stated: a frame holding any pair of distinct atoms closer than the
\* near-zero threshold never completes normally, whatever the selection mask.
C2_AnyCoincidentPairAborts ==
    \A f \in done :
        \A a, b \in Atoms : a # b => ~Coincident(f, a, b)

\* C2 amended: a frame holding a pair of distinct atoms closer than the
\* near-zero threshold, at least one of them selected, never completes
\* normally: the unit working on it never gets past the neighbor scan of
\* the first selected atom of such a pair, and the process exits.
C2_SelectedCoincidentPairAborts ==
    /\ \A f \in done :
          \A a, b \in Atoms :
              (a # b /\ atom_selection_mask[a] # 0) => ~Coincident(f, a, b)
    /\ \A t \in Units :
          \A b \in Atoms \ {i[t]} :
              (InPoints(t) /\ Coincident(frame[t], i[t], b)) => FALSE
    /\ \A t \in Units :
          \A a, b \in Atoms :
              (/\ pc[t] \in {"atom", "neighbors"} /\ ~exited
               /\ a < i[t] /\ a # b /\ atom_selection_mask[a] # 0)
              => ~Coincident(frame[t], a, b)

\* C2 witness: the process has exited in the neighbor scan of a selected
\* atom, on an atom of lower index that coincides with it and is not selected
C2_Witness ==
    \E t \in Units :
        /\ exited /\ pc[t] = "neighbors"
        /\ Coincident(frame[t], i[t], j[t])
        /\ atom_selection_mask[j[t]] = 0
        /\ j[t] < i[t]

\* C4: once asa_frame has completed for a frame, every voxel (ix, iy, iz),
\* stored at flat index iz*countsY*countsX + iy*countsX + ix, holds the sum
\* of radius^2 (in units of 4*pi/N) over the exposed sphere points of the
\* selected atoms whose rounded voxel index is (ix, iy, iz); exposed points
\* outside the grid change no voxel, so the mass of the grid is the sum over
\* the exposed in-grid points, each counted once.
C4_VoxelSums ==
    \A f \in done :
        LET E == ExposedPoints(f)
        IN /\ \A v \in Voxels :
                 out[f * total_grid_points
                       + v[3]*counts[1]*counts[0] + v[2]*counts[0] + v[1]]
                   = Mass({ap \in E : Voxel(SurfacePoint(f, ap[1], ap[2])) = v})
           /\ SumCells(f, 0) =
                 Mass({ap \in E : InGrid(Voxel(SurfacePoint(f, ap[1], ap[2])))})

\* C4 witness: a finished frame with a voxel that sphere points of two
\* atoms went to, and an exposed point in a voxel off the x axis
C4_Witness ==
    \E f \in done :
        /\ \E v \in Voxels :
              \E ap, bq \in PointsAt(f, v) : ap[1] # bq[1]
        /\ \E v \in Voxels : v[2] > 0 /\ PointsAt(f, v) # {}

\* C5: an atom whose selection-mask entry is 0 is never the atom whose
\* sphere points are rasterised, so it adds nothing to any voxel; yet it is
\* in the neighbor list of every selected atom within the radius-sum
\* cutoff, and a sphere point is classified exposed exactly when no other
\* atom, selected or not, contains it.
C5_UnselectedStillOccludes ==
    \A t \in Units :
        /\ InAtom(t) => atom_selection_mask[i[t]] # 0
        /\ InPoints(t) =>
              \A b \in WithinCutoff(frame[t], i[t]) :
                  \E x \in 0..(n_neighbor_indices[t] - 1) : wb1[WorkBuf(t)][x] = b
        /\ ScanOver(t) =>
              (is_accessible[t] <=>
                 \A b \in Atoms \ {i[t]} :
                     ~Inside(SurfacePoint(frame[t], i[t], j[t]), frame[t], b))

\* C5 witness: a sphere point of a selected atom found occluded by an atom
\* that is not selected
C5_Witness ==
    \E t \in Units :
        /\ pc[t] = "rasterize" /\ ~is_accessible[t]
        /\ atom_selection_mask[
              wb1[WorkBuf(t)][k_prime_of(k[t], n_neighbor_indices[t])]] = 0

\* C7: for a selected atom with no other atom within the radius-sum cutoff
\* the neighbor list is empty, no step of the scan reads the list, every
\* sphere point is classified exposed, and when none is clipped by the grid
\* the atom's voxel contributions add up to N * radius^2 (in units of
\* 4*pi/N).
C7_IsolatedAtom ==
    \A t \in Units :
        (InPoints(t) /\ WithinCutoff(frame[t], i[t]) = {}) =>
            /\ n_neighbor_indices[t] = 0
            /\ \A a \in acc[t] : a[1] # "wb1 read"
            /\ pc[t] = "scan" =>
                  k[t] >= n_neighbor_indices[t] + k_closest_neighbor[t]
            /\ \A x \in 1..Len(cls[t]) : cls[t][x][1]
            /\ pc[t] # "points" => is_accessible[t]
            /\ (/\ pc[t] = "points" /\ j[t] = n_sphere_points
                /\ \A x \in 1..Len(cls[t]) : cls[t][x][2] >= 0) =>
                  /\ Len(cls[t]) = n_sphere_points
                  /\ SumValues(cls[t]) =
                        n_sphere_points * atom_radii[i[t]] * atom_radii[i[t]]

\* C7 witness: all sphere points of an isolated atom of radius 2 done, none
\* clipped
C7_Witness ==
    \E t \in Units :
        /\ pc[t] = "points" /\ j[t] = n_sphere_points /\ n_sphere_points > 0
        /\ WithinCutoff(frame[t], i[t]) = {}
        /\ atom_radii[i[t]] = 2
        /\ \A x \in 1..Len(cls[t]) : cls[t][x][2] >= 0

\* the grid of frame f as a function of the frame's coordinates and of the
\* shared inputs (radii, mask, sphere points, counts, spacing) alone
RECURSIVE Deposit(_, _, _)
Deposit(f, S, g) ==
    IF S = {} THEN g
    ELSE LET ap == CHOOSE x \in S : TRUE
             v == Voxel(SurfacePoint(f, ap[1], ap[2]))
         IN Deposit(f, S \ {ap},
                IF /\ atom_selection_mask[ap[1]] # 0
                   /\ InGrid(v)
                   /\ Exposed(f, ap[1], ap[2])
                THEN [g EXCEPT ![v[3]*counts[1]*counts[0] + v[2]*counts[0] + v[1]] =
                                    @ + atom_radii[ap[1]] * atom_radii[ap[1]]]
                ELSE g)
FrameGrid(f) ==
    Deposit(f, Atoms \X Points, [x \in 0..(total_grid_points - 1) |-> 0])

OutSlice(f) ==
    [x \in 0..(total_grid_points - 1) |-> out[f * total_grid_points + x]]

SameCoordinates(f, g) ==
    \A x \in 0..(n_atoms*3 - 1) : FrameAt(f, x) = FrameAt(g, x)

\* C3: from the moment asa_frame has completed for frame k, the output
\* slice of frame k is the function FrameGrid of frame k's coordinates and
\* the shared inputs, whichever unit computed it, whatever the other units
\* do meanwhile or afterwards, and whatever the output and scratch buffers
\* held before; so frames with the same coordinates get the same slice.
C3_FrameIndependence ==
    /\ \A f \in done : OutSlice(f) = FrameGrid(f)
    /\ \A f, g \in done : SameCoordinates(f, g) => OutSlice(f) = OutSlice(g)

\* C3 witness: two frames with different coordinates, each computed by a
\* unit of its own, are both complete, with different slices
C3_Witness ==
    /\ n_threads = 2 /\ n_frames = 2 /\ done = {0, 1}
    /\ frame[1] # frame[2]
    /\ ~SameCoordinates(0, 1)
    /\ OutSlice(0) # OutSlice(1)

\* C6 as stated: with a non-positive grid_spacing or with n_sphere_points
\* equal to zero, sasa rejects the call before any frame is processed: no
\* unit enters asa_frame, no scratch buffer is used and no cell of the
\* output buffer is written.
C6_InvalidConfigurationRejected ==
    (grid_spacing <= 0 \/ n_sphere_points = 0) =>
        /\ todo = 0..(n_frames - 1)
        /\ \A t \in Units : pc[t] = "idle" /\ acc[t] = {}

\* C10: every write to the output buffer made by a unit working on frame k
\* is at a flat index in [k*T, (k+1)*T), so two units never write the same
\* cell; every write to the neighbor scratch buffer is at an index in
\* [0, n_atoms); every read of it in the occlusion scan is at an index in
\* [0, n_neighbor_indices).
C10_AccessesInBounds ==
    /\ \A t \in Units : \A a \in acc[t] :
          /\ a[1] = "out" =>
                /\ a[2] >= frame[t] * total_grid_points
                /\ a[2] < (frame[t] + 1) * total_grid_points
          /\ a[1] = "wb1 write" => (a[2] >= 0 /\ a[2] < n_atoms)
          /\ a[1] = "wb1 read" => (a[2] >= 0 /\ a[2] < n_neighbor_indices[t])
    /\ \A t, u \in Units : t # u => acc[t] \cap acc[u] \cap ({"out"} \X Int) = {}

\* C10 witness: two units at work on different frames, one having just
\* added to a voxel of its slice, the other having just read its neighbor
\* list
C10_Witness ==
    \E t, u \in Units :
        /\ t # u /\ frame[t] # frame[u]
        /\ pc[t] = "points" /\ \E a \in acc[t] : a[1] = "out"
        /\ \E a \in acc[u] : a[1] = "wb1 read"

====
